---- MODULE Spec2Model ----
(***************************************************************************)
(* Model of convertGlacier.py: the classification pass over a bucket       *)
(* listing, the immediate conversion of GLACIER_IR objects, and the        *)
(* restore / poll / convert loop for GLACIER objects, together with the    *)
(* per-tier ConversionStats counters.  Every call to the object store is   *)
(* one step; the store's answer is chosen nondeterministically.            *)
(***************************************************************************)
EXTENDS Integers, Sequences, FiniteSets, TLC

(* ---------------------------- bounds ----------------------------------- *)
MaxKeys == 3        \* object keys in the bucket; the listing holds at most that many objects
MaxPages == 2       \* pages the paginator may yield
MaxRounds == 2      \* poll rounds, waits and checks are counted exactly up to here
MaxTokens == 3      \* "#"-separated tokens of a configuration string given to the parser alone

Keys == 1..MaxKeys

(* ---------------------- StorageClass / configuration ------------------- *)
GLACIER == "GLACIER"
GLACIER_IR == "GLACIER_IR"
STANDARD == "STANDARD"

StorageClass == {GLACIER, GLACIER_IR}

\* the member names, as the characters the configuration string is made of
GlacierChars == <<"G", "L", "A", "C", "I", "E", "R">>
GlacierIRChars == GlacierChars \o <<"_", "I", "R">>
BogusChars == <<"B", "O", "G", "U", "S">>
Hash == <<"#">>
Space == <<" ">>
Tab == <<"\t">>
LowerGlacierChars == <<"g", "l", "a", "c", "i", "e", "r">>

\* the characters str.strip() removes that the configuration strings here use
Whitespace == {" ", "\t"}

MemberName(m) == IF m = GLACIER THEN GlacierChars ELSE GlacierIRChars

\* values of aws.storageclass the runs are started with
ConfigStrings ==
    { GlacierChars \o Hash \o BogusChars \o Hash \o GlacierIRChars,
      Space \o GlacierIRChars \o Space \o Hash \o Space \o GlacierChars,
      GlacierChars,
      BogusChars }

\* StorageConfig built with convert_to_intelligent=False
StorageConfig_NoConvert(storage_class) ==
    [storage_class |-> storage_class, convert_to_intelligent |-> FALSE]

\* line 198: StorageConfig(storage_class, convert_to_intelligent=True)
StorageConfig(storage_class) ==
    [storage_class |-> storage_class, convert_to_intelligent |-> TRUE]

ConversionStats == [found |-> 0, converted |-> 0, failed |-> 0, skipped |-> 0]

\* str.split("#"): the pieces between separators, empty pieces included
RECURSIVE SplitFrom(_, _, _)
SplitFrom(s, k, cur) ==
    IF k > Len(s) THEN <<cur>>
    ELSE IF s[k] = "#" THEN <<cur>> \o SplitFrom(s, k + 1, << >>)
    ELSE SplitFrom(s, k + 1, Append(cur, s[k]))

Split(s) == SplitFrom(s, 1, << >>)

\* str.strip(): leading and trailing whitespace removed
RECURSIVE LStrip(_)
LStrip(s) == IF s # << >> /\ Head(s) \in Whitespace THEN LStrip(Tail(s)) ELSE s

RECURSIVE RStrip(_)
RStrip(s) ==
    IF s # << >> /\ s[Len(s)] \in Whitespace THEN RStrip(SubSeq(s, 1, Len(s) - 1)) ELSE s

\* Strip leaving the piece as it is
Strip_None(s) == s

Strip(s) == RStrip(LStrip(s))

\* StorageClass[part]: the member of that name; KeyError when there is none
IsMember(part) == \E m \in StorageClass : MemberName(m) = part
Lookup(part) == CHOOSE m \in StorageClass : MemberName(m) = part

RECURSIVE ConfigsOf(_)
ConfigsOf(parts) ==
    IF parts = << >> THEN << >>
    ELSE LET part == Strip(Head(parts))
         IN  IF IsMember(part)
             THEN <<StorageConfig(Lookup(part))>> \o ConfigsOf(Tail(parts))
             ELSE ConfigsOf(Tail(parts))

create_storage_configs(config_string) == ConfigsOf(Split(config_string))

(* ------------------------------ helpers -------------------------------- *)
EmptyMap == [t \in {} |-> << >>]

\* dict.get(key, [])
Get(m, t) == IF t \in DOMAIN m THEN m[t] ELSE << >>

\* a counter that is exact up to MaxRounds; MaxRounds + 1 stands for any larger count
Inc(n) == IF n <= MaxRounds THEN n + 1 ELSE n

SeqsUpTo(S, n) == UNION {[1..m -> S] : m \in 0..n}

Range(s) == {s[j] : j \in 1..Len(s)}

\* a work item; id is the discovery ordinal, kept for observation only
WorkItem(key, flag, id) ==
    [key |-> key, convert_to_intelligent |-> flag, id |-> id]

\* dict equality of two work items: key and flag
SameItem(a, b) ==
    a.key = b.key /\ a.convert_to_intelligent = b.convert_to_intelligent

\* obj in list
InList(o, list) == \E j \in 1..Len(list) : SameItem(o, list[j])

Ids(list) == {list[j].id : j \in 1..Len(list)}

VARIABLES
    pc,                       \* position in main()
    storageclass,             \* config['storageclass']
    storage_configs,          \* list of StorageConfig
    stats,                    \* StorageClass -> ConversionStats
    objects_to_process,       \* the classifier's work lists while listing
    objects_by_storage_class, \* what process_glacier_objects returned
    pages,                    \* pages yielded so far (the paginator's position)
    lastKey,                  \* the last key the listing yielded, 0 before the first
    nlisted,                  \* objects the listing yielded so far
    listing,                  \* the objects the listing yielded so far, in order
    i,                        \* index of the running for loop
    objects_to_restore,       \* the pending list
    restored_objects,         \* the items found restored in this round
    conv_objects,             \* argument of convert_to_intelligent_tiering
    conv_tier,                \* the tier whose stats it was handed
    conv_ret,                 \* where it returns to
    conv_entry,               \* the stats it was handed, as they were at its entry
    nextId,                   \* ordinal of the next work item
    lastCall,                 \* the most recent store call and its answer
    copied,                   \* ids passed to copy_object, in call order
    requested,                \* ids passed to restore_object
    inProgress,               \* ids whose restore request was answered already-in-progress
    checkedRound,             \* ids passed to head_object in the current poll round
    heads,                    \* head_object calls made
    dropped,                  \* items dropped by a restore error
    rounds,                   \* poll rounds begun
    waits,                    \* sleeps taken
    listFailed                \* the listing raised

vars == <<pc, storageclass, storage_configs, stats, objects_to_process,
          objects_by_storage_class, pages, lastKey, nlisted, listing, i, objects_to_restore,
          restored_objects, conv_objects, conv_tier, conv_ret, conv_entry,
          nextId, lastCall, copied, requested, inProgress, checkedRound, heads, dropped, rounds,
          waits, listFailed>>

NoCall == [op |-> "none", id |-> 0, resp |-> "none"]

Done(st) == st.converted + st.failed + st.skipped

Init ==
    /\ pc = "start"
    /\ storageclass \in ConfigStrings
    /\ storage_configs = << >>
    /\ stats = EmptyMap
    /\ objects_to_process = EmptyMap
    /\ objects_by_storage_class = EmptyMap
    /\ pages = 0
    /\ lastKey = 0
    /\ nlisted = 0
    /\ listing = << >>
    /\ i = 1
    /\ objects_to_restore = << >>
    /\ restored_objects = << >>
    /\ conv_objects = << >>
    /\ conv_tier = GLACIER
    /\ conv_ret = "none"
    /\ conv_entry = ConversionStats
    /\ nextId = 1
    /\ lastCall = NoCall
    /\ copied = << >>
    /\ requested = {}
    /\ inProgress = {}
    /\ checkedRound = {}
    /\ heads = 0
    /\ dropped = 0
    /\ rounds = 0
    /\ waits = 0
    /\ listFailed = FALSE

(* ------------------------- process_glacier_objects --------------------- *)
ListedClasses == {GLACIER, GLACIER_IR, STANDARD}

\* an entry of page['Contents']: with or without a StorageClass attribute
ListObjects ==
    {[Key |-> k, StorageClass |-> c] : k \in Keys, c \in ListedClasses}
        \cup {[Key |-> k] : k \in Keys}

\* list_objects_v2 returns keys in ascending order; dup lets a key repeat
Ascending(c, last, dup) ==
    \A j \in 1..Len(c) :
        LET prev == IF j = 1 THEN last ELSE c[j - 1].Key
        IN  IF dup THEN c[j].Key >= prev /\ c[j].Key >= 1 ELSE c[j].Key > prev

\* the Contents a next page may hold
PageContents(dup) ==
    {c \in SeqsUpTo(ListObjects, MaxKeys - nlisted) :
        Len(c) >= 1 /\ Ascending(c, lastKey, dup)}

\* FirstMatch without the break of line 107: the last matching config wins
FirstMatch_Last(configs, storage_class) ==
    LET hits == {j \in 1..Len(configs) : configs[j].storage_class = storage_class}
    IN  IF hits = {} THEN 0 ELSE CHOOSE j \in hits : \A h \in hits : j >= h

\* the first config whose storage class value equals the object's, 0 if none
FirstMatch(configs, storage_class) ==
    LET hits == {j \in 1..Len(configs) : configs[j].storage_class = storage_class}
    IN  IF hits = {} THEN 0 ELSE CHOOSE j \in hits : \A h \in hits : j <= h

\* ClassifyObject with the found increment of line 101 left out
ClassifyObject_NoCount(st, configs, obj) ==
    IF "StorageClass" \notin DOMAIN obj THEN st
    ELSE LET m == FirstMatch(configs, obj.StorageClass)
         IN  IF m = 0 THEN st
             ELSE LET t == configs[m].storage_class
                      item == WorkItem(obj.Key, configs[m].convert_to_intelligent, st.nextId)
                  IN  [stats |-> st.stats,
                       objs |-> [st.objs EXCEPT ![t] = Append(@, item)],
                       nextId |-> st.nextId + 1]

\* lines 93-107 for one object; st = [stats, objs, nextId]
ClassifyObject(st, configs, obj) ==
    IF "StorageClass" \notin DOMAIN obj THEN st
    ELSE LET m == FirstMatch(configs, obj.StorageClass)
         IN  IF m = 0 THEN st
             ELSE LET t == configs[m].storage_class
                      item == WorkItem(obj.Key, configs[m].convert_to_intelligent, st.nextId)
                  IN  [stats |-> [st.stats EXCEPT ![t].found = @ + 1],
                       objs |-> [st.objs EXCEPT ![t] = Append(@, item)],
                       nextId |-> st.nextId + 1]

RECURSIVE ClassifyPage(_, _, _)
ClassifyPage(st, configs, contents) ==
    IF contents = << >> THEN st
    ELSE ClassifyPage(ClassifyObject(st, configs, Head(contents)), configs, Tail(contents))

\* ListFailResult handing back the work lists gathered before the failure
ListFailResult_Partial(objs) == objs

\* what the except branch hands back as the result mapping (line 117)
ListFailResult(objs) == EmptyMap

\* NoConfigs letting an empty policy list through
NoConfigs_Never(configs) == FALSE

\* line 220: if not storage_configs
NoConfigs(configs) == configs = << >>

\* lines 219-222
Configure ==
    /\ pc = "start"
    /\ storage_configs' = create_storage_configs(storageclass)
    /\ pc' = IF NoConfigs(storage_configs') THEN "noconfig" ELSE "process"
    /\ UNCHANGED <<storageclass, stats, objects_to_process, objects_by_storage_class,
                   pages, lastKey, nlisted, listing, i, objects_to_restore, restored_objects,
                   conv_objects, conv_tier, conv_ret, conv_entry, nextId, lastCall,
                   copied, requested, inProgress, checkedRound, heads, dropped, rounds, waits, listFailed>>

\* lines 81-82
ProcessBegin ==
    /\ pc = "process"
    /\ stats' = [t \in {storage_configs[j].storage_class : j \in 1..Len(storage_configs)}
                    |-> ConversionStats]
    /\ objects_to_process' =
           [t \in {storage_configs[j].storage_class : j \in 1..Len(storage_configs)}
               |-> << >>]
    /\ pc' = "list"
    /\ UNCHANGED <<storageclass, storage_configs, objects_by_storage_class,
                   pages, lastKey, nlisted, listing, i, objects_to_restore, restored_objects,
                   conv_objects, conv_tier, conv_ret, conv_entry, nextId, lastCall,
                   copied, requested, inProgress, checkedRound, heads, dropped, rounds, waits, listFailed>>

\* lines 85-107: the paginator yields one more page
ListPage(dup) ==
    /\ pc = "list"
    /\ pages < MaxPages
    /\ \/ \* a page without 'Contents' (lines 88-89)
          /\ UNCHANGED <<stats, objects_to_process, nextId, lastKey, nlisted, listing>>
       \/ \E contents \in PageContents(dup) :
            LET st == ClassifyPage([stats |-> stats, objs |-> objects_to_process,
                                    nextId |-> nextId], storage_configs, contents)
            IN  /\ stats' = st.stats
                /\ objects_to_process' = st.objs
                /\ nextId' = st.nextId
                /\ lastKey' = contents[Len(contents)].Key
                /\ nlisted' = nlisted + Len(contents)
                /\ listing' = listing \o contents
    /\ pages' = pages + 1
    /\ lastCall' = [op |-> "list", id |-> 0, resp |-> "page"]
    /\ UNCHANGED <<pc, storageclass, storage_configs, objects_by_storage_class,
                   i, objects_to_restore, restored_objects,
                   conv_objects, conv_tier, conv_ret, conv_entry,
                   copied, requested, inProgress, checkedRound, heads, dropped, rounds, waits, listFailed>>

\* lines 109-113: the listing is exhausted
ListReturn(keep) ==
    /\ pc = "list"
    /\ objects_by_storage_class' = objects_to_process
    /\ objects_to_process' = EmptyMap
    /\ pages' = 0
    /\ lastKey' = 0
    /\ nlisted' = 0
    /\ listing' = IF keep THEN listing ELSE << >>
    /\ pc' = "main_ir"
    /\ lastCall' = [op |-> "list", id |-> 0, resp |-> "end"]
    /\ UNCHANGED <<storageclass, storage_configs, stats, i, objects_to_restore, restored_objects,
                   conv_objects, conv_tier, conv_ret, conv_entry, nextId,
                   copied, requested, inProgress, checkedRound, heads, dropped, rounds, waits, listFailed>>

\* line 113, the record of what was listed dropped
ListEnd == ListReturn(FALSE)

\* lines 115-117: the paginator raises on the next page
ListFail ==
    /\ pc = "list"
    /\ pages < MaxPages
    /\ objects_by_storage_class' = ListFailResult(objects_to_process)
    /\ objects_to_process' = EmptyMap
    /\ listFailed' = TRUE
    /\ pages' = 0
    /\ lastKey' = 0
    /\ nlisted' = 0
    /\ listing' = << >>
    /\ pc' = "main_ir"
    /\ lastCall' = [op |-> "list", id |-> 0, resp |-> "error"]
    /\ UNCHANGED <<storageclass, storage_configs, stats, i, objects_to_restore, restored_objects,
                   conv_objects, conv_tier, conv_ret, conv_entry, nextId,
                   copied, requested, inProgress, checkedRound, heads, dropped, rounds, waits>>

(* --------------------- convert_to_intelligent_tiering ------------------ *)
CopyResponses == {"ok", "error"}

\* IssuesCopy without the test of line 170
IssuesCopy_Always(obj) == TRUE

\* line 170: only an item whose flag is set reaches copy_object
IssuesCopy(obj) == obj.convert_to_intelligent

\* ConvertItem counting a converted item as found once more
ConvertItem_CountsFound(stat, obj, resp) ==
    IF ~obj.convert_to_intelligent THEN [stat EXCEPT !.skipped = @ + 1]
    ELSE IF resp = "ok" THEN [stat EXCEPT !.converted = @ + 1, !.found = @ + 1]
    ELSE [stat EXCEPT !.failed = @ + 1]

\* ConvertItem with the failed increment of line 187 left out
ConvertItem_DropsFailure(stat, obj, resp) ==
    IF ~obj.convert_to_intelligent THEN [stat EXCEPT !.skipped = @ + 1]
    ELSE IF resp = "ok" THEN [stat EXCEPT !.converted = @ + 1]
    ELSE stat

\* lines 170-188: the stats after one item, resp being copy_object's outcome
ConvertItem(stat, obj, resp) ==
    IF ~obj.convert_to_intelligent THEN [stat EXCEPT !.skipped = @ + 1]
    ELSE IF resp = "ok" THEN [stat EXCEPT !.converted = @ + 1]
    ELSE [stat EXCEPT !.failed = @ + 1]

\* the call convert_to_intelligent_tiering(logger, bucket_name, objects, stats[tier])
CallConvert(objects, tier, ret) ==
    /\ conv_objects' = objects
    /\ conv_tier' = tier
    /\ conv_ret' = ret
    /\ conv_entry' = stats[tier]
    /\ i' = 1
    /\ pc' = "convert"

\* lines 169-188: one iteration of the loop
ConvertStep ==
    /\ pc = "convert"
    /\ i <= Len(conv_objects)
    /\ LET obj == conv_objects[i]
       IN  \E resp \in CopyResponses :
             /\ IssuesCopy(obj) \/ resp = "ok"
             /\ stats' = [stats EXCEPT ![conv_tier] = ConvertItem(@, obj, resp)]
             /\ copied' = IF IssuesCopy(obj) THEN Append(copied, obj.id) ELSE copied
             /\ lastCall' = IF IssuesCopy(obj)
                            THEN [op |-> "copy", id |-> obj.id, resp |-> resp]
                            ELSE [op |-> "skip", id |-> obj.id, resp |-> "none"]
    /\ i' = IF i = Len(conv_objects) THEN 1 ELSE i + 1
    /\ pc' = IF i = Len(conv_objects) THEN conv_ret ELSE pc
    /\ UNCHANGED <<storageclass, storage_configs, objects_to_process,
                   objects_by_storage_class, pages, lastKey, nlisted, listing, objects_to_restore,
                   restored_objects, conv_objects, conv_tier, conv_ret, conv_entry,
                   nextId, requested, inProgress, checkedRound, heads, dropped, rounds, waits, listFailed>>

(* ----------------------------- main: GLACIER_IR ------------------------ *)
\* lines 230-234
MainGlacierIR ==
    /\ pc = "main_ir"
    /\ IF Get(objects_by_storage_class, GLACIER_IR) # << >>
       THEN CallConvert(Get(objects_by_storage_class, GLACIER_IR), GLACIER_IR,
                        "main_glacier")
       ELSE /\ pc' = "main_glacier"
            /\ UNCHANGED <<conv_objects, conv_tier, conv_ret, conv_entry, i>>
    /\ UNCHANGED <<storageclass, storage_configs, stats, objects_to_process,
                   objects_by_storage_class, pages, lastKey, nlisted, listing, objects_to_restore,
                   restored_objects, nextId, lastCall, copied, requested, inProgress, checkedRound, heads,
                   dropped, rounds, waits, listFailed>>

(* ------------------- initiate_restore_for_glacier_objects -------------- *)
\* restore_object returns, or raises a ClientError carrying an error code, or
\* raises an exception that is no ClientError (a botocore connection error)
RestoreResponses ==
    {"ok", "RestoreAlreadyInProgress", "OtherClientError", "NotClientError"}

\* RestoreKeeps without the append of line 142
RestoreKeeps_OnlyOk(resp) == resp = "ok"

\* lines 137, 140-142: the item goes on to polling
RestoreKeeps(resp) == resp \in {"ok", "RestoreAlreadyInProgress"}

\* line 139: only ClientError is caught inside the loop
RestoreEscapes(resp) == resp = "NotClientError"

\* lines 237-240 up to the call
MainGlacier ==
    /\ pc = "main_glacier"
    /\ pc' = IF Get(objects_by_storage_class, GLACIER) # << >> THEN "restore" ELSE "report"
    /\ i' = 1
    /\ objects_to_restore' = << >>
    /\ UNCHANGED <<storageclass, storage_configs, stats, objects_to_process,
                   objects_by_storage_class, pages, lastKey, nlisted, listing,
                   restored_objects, conv_objects, conv_tier, conv_ret, conv_entry,
                   nextId, lastCall, copied, requested, inProgress, checkedRound, heads, dropped, rounds,
                   waits, listFailed>>

\* lines 124-146: one iteration; after the last one the list is returned to main
RestoreStep ==
    /\ pc = "restore"
    /\ i <= Len(Get(objects_by_storage_class, GLACIER))
    /\ LET objects == Get(objects_by_storage_class, GLACIER)
           obj == objects[i]
       IN  \E resp \in RestoreResponses :
             /\ requested' = requested \cup {obj.id}
             /\ inProgress' = IF resp = "RestoreAlreadyInProgress"
                              THEN inProgress \cup {obj.id} ELSE inProgress
             /\ lastCall' = [op |-> "restore", id |-> obj.id, resp |-> resp]
             /\ IF RestoreEscapes(resp)
                THEN /\ pc' = "aborted"
                     /\ UNCHANGED <<objects_to_restore, dropped, i>>
                ELSE /\ objects_to_restore' =
                            IF RestoreKeeps(resp) THEN Append(objects_to_restore, obj)
                            ELSE objects_to_restore
                     /\ dropped' = IF RestoreKeeps(resp) THEN dropped ELSE dropped + 1
                     /\ i' = IF i = Len(objects) THEN 1 ELSE i + 1
                     /\ pc' = IF i = Len(objects) THEN "while" ELSE pc
    /\ UNCHANGED <<storageclass, storage_configs, stats, objects_to_process,
                   objects_by_storage_class, pages, lastKey, nlisted, listing,
                   restored_objects, conv_objects, conv_tier, conv_ret, conv_entry,
                   nextId, copied, checkedRound, heads, rounds, waits, listFailed>>

(* ------------------------------ the poll loop -------------------------- *)
\* head_object: Restore with ongoing-request="false", Restore with
\* ongoing-request="true", no Restore in the response, or an exception
HeadResponses == {"restored", "ongoing", "norestore", "error"}

\* IsRestored taking a response without Restore metadata as restored
IsRestored_NoMetadata(resp) == resp \in {"restored", "norestore"}

\* line 157
IsRestored(resp) == resp = "restored"

\* NeedsWait without the test of line 248
NeedsWait_Always(pending) == TRUE

\* line 248: sleep only while some item is still pending
NeedsWait(pending) == pending # << >>

\* Remaining leaving every item in the pending list
Remaining_KeepsAll(objects, restored) == objects

\* Remaining emptying the pending list
Remaining_DropsAll(objects, restored) == << >>

\* line 246: the pending items that are not (by dict equality) in restored
Remaining(objects, restored) ==
    SelectSeq(objects, LAMBDA o : ~InList(o, restored))

\* line 242: the loop test, and the call of check_restore_status (lines 244, 151)
While ==
    /\ pc = "while"
    /\ IF objects_to_restore # << >>
       THEN /\ pc' = "check"
            /\ restored_objects' = << >>
            /\ rounds' = Inc(rounds)
            /\ checkedRound' = {}
       ELSE /\ pc' = "report"
            /\ UNCHANGED <<restored_objects, rounds, checkedRound>>
    /\ i' = 1
    /\ UNCHANGED <<storageclass, storage_configs, stats, objects_to_process,
                   objects_by_storage_class, pages, lastKey, nlisted, listing, objects_to_restore,
                   conv_objects, conv_tier, conv_ret, conv_entry,
                   nextId, lastCall, copied, requested, inProgress, heads, dropped,
                   waits, listFailed>>

\* AddRestored putting the item at the front of the list
AddRestored_Front(restored, obj) == <<obj>> \o restored

\* line 158: restored_objects.append(obj)
AddRestored(restored, obj) == Append(restored, obj)

\* lines 153-163: one status check
HeadStep ==
    /\ pc = "check"
    /\ i <= Len(objects_to_restore)
    /\ LET obj == objects_to_restore[i]
       IN  \E resp \in HeadResponses :
             /\ restored_objects' =
                    IF IsRestored(resp) THEN AddRestored(restored_objects, obj)
                    ELSE restored_objects
             /\ checkedRound' = checkedRound \cup {obj.id}
             /\ heads' = Inc(heads)
             /\ lastCall' = [op |-> "head", id |-> obj.id, resp |-> resp]
    /\ i' = IF i = Len(objects_to_restore) THEN 1 ELSE i + 1
    /\ pc' = IF i = Len(objects_to_restore) THEN "partition" ELSE pc
    /\ UNCHANGED <<storageclass, storage_configs, stats, objects_to_process,
                   objects_by_storage_class, pages, lastKey, nlisted, listing, objects_to_restore,
                   conv_objects, conv_tier, conv_ret, conv_entry,
                   nextId, copied, requested, inProgress, dropped, rounds, waits, listFailed>>

\* ConvertRestored without the call of line 253
ConvertRestored_Skipped ==
    /\ pc' = "while"
    /\ UNCHANGED <<conv_objects, conv_tier, conv_ret, conv_entry, i>>

\* lines 252-254: the restored items of this round go to the converter
ConvertRestored ==
    IF restored_objects # << >>
    THEN CallConvert(restored_objects, GLACIER, "while")
    ELSE /\ pc' = "while"
         /\ UNCHANGED <<conv_objects, conv_tier, conv_ret, conv_entry, i>>

\* lines 246-248: the pending list is cut down; sleep if any item is left
Partition ==
    /\ pc = "partition"
    /\ objects_to_restore' = Remaining(objects_to_restore, restored_objects)
    /\ IF NeedsWait(objects_to_restore')
       THEN /\ pc' = "sleep"
            /\ UNCHANGED <<conv_objects, conv_tier, conv_ret, conv_entry, i>>
       ELSE ConvertRestored
    /\ UNCHANGED <<storageclass, storage_configs, stats, objects_to_process,
                   objects_by_storage_class, pages, lastKey, nlisted, listing,
                   restored_objects, nextId, lastCall, copied, requested, inProgress, checkedRound, heads,
                   dropped, rounds, waits, listFailed>>

\* line 250: time.sleep(check_interval), then lines 252-254
Sleep ==
    /\ pc = "sleep"
    /\ waits' = Inc(waits)
    /\ lastCall' = [op |-> "sleep", id |-> 0, resp |-> "none"]
    /\ ConvertRestored
    /\ UNCHANGED <<storageclass, storage_configs, stats, objects_to_process,
                   objects_by_storage_class, pages, lastKey, nlisted, listing, objects_to_restore,
                   restored_objects, nextId, copied, requested, inProgress, checkedRound, heads,
                   dropped, rounds, listFailed>>

\* lines 256-265: the final statistics report
Report ==
    /\ pc = "report"
    /\ pc' = "done"
    /\ UNCHANGED <<storageclass, storage_configs, stats, objects_to_process,
                   objects_by_storage_class, pages, lastKey, nlisted, listing, i, objects_to_restore,
                   restored_objects, conv_objects, conv_tier, conv_ret, conv_entry,
                   nextId, lastCall, copied, requested, inProgress, checkedRound, heads, dropped, rounds,
                   waits, listFailed>>

Next ==
    \/ Configure
    \/ ProcessBegin
    \/ ListPage(FALSE)
    \/ ListEnd
    \/ ListFail
    \/ MainGlacierIR
    \/ ConvertStep
    \/ MainGlacier
    \/ RestoreStep
    \/ While
    \/ HeadStep
    \/ Partition
    \/ Sleep
    \/ Report

Spec == Init /\ [][Next]_vars

(* -------- convert_to_intelligent_tiering called on an arbitrary list --- *)
\* lists of work items with any keys and flags, ids being the positions
ItemLists ==
    UNION {{[j \in 1..n |-> WorkItem(ks[j], fs[j], j)] :
              ks \in [1..n -> Keys], fs \in [1..n -> BOOLEAN]} : n \in 0..MaxKeys}

EntryStats ==
    {ConversionStats,
     [found |-> MaxKeys + 1, converted |-> 1, failed |-> 0, skipped |-> 1]}

InitConvert ==
    /\ conv_objects \in ItemLists
    /\ conv_tier \in StorageClass
    /\ conv_entry \in EntryStats
    /\ stats = [t \in {conv_tier} |-> conv_entry]
    /\ conv_ret = "returned"
    /\ pc = IF conv_objects = << >> THEN "returned" ELSE "convert"
    /\ i = 1
    /\ storageclass = << >>
    /\ storage_configs = << >>
    /\ objects_to_process = EmptyMap
    /\ objects_by_storage_class = EmptyMap
    /\ pages = 0
    /\ lastKey = 0
    /\ nlisted = 0
    /\ listing = << >>
    /\ objects_to_restore = << >>
    /\ restored_objects = << >>
    /\ nextId = 1
    /\ lastCall = NoCall
    /\ copied = << >>
    /\ requested = {}
    /\ inProgress = {}
    /\ checkedRound = {}
    /\ heads = 0
    /\ dropped = 0
    /\ rounds = 0
    /\ waits = 0
    /\ listFailed = FALSE

NextConvert == ConvertStep

SpecConvert == InitConvert /\ [][NextConvert]_vars

(* ============================== the claims ============================= *)
GlacierObjects == Get(objects_by_storage_class, GLACIER)

\* items of tier t dropped because their restore request returned an error
DroppedBy(t) == IF t = GLACIER THEN dropped ELSE 0

\* the ids of a list are pairwise different and were handed out by the classifier
OneFoundEach(list, t) ==
    /\ Cardinality(Ids(list)) = Len(list)
    /\ Ids(list) \subseteq 1..(nextId - 1)
    /\ Len(list) <= stats[t].found

\* copy_object calls made for items that went through a restore request
RestoredCopies == Cardinality({j \in 1..Len(copied) : copied[j] \in requested})

\* the restore phase left exactly one item pending
SinglePending == Cardinality(requested) - dropped = 1

\* C1: at the final report, for every configured tier,
\* found = converted + failed + skipped + items dropped by a restore error.
C1_FoundPartition ==
    pc = "done" =>
        \A t \in DOMAIN stats : stats[t].found = Done(stats[t]) + DroppedBy(t)

\* the partition of C1 on the runs whose listing did not fail
FoundPartitionAfterFullListing ==
    (pc = "done" /\ ~listFailed) =>
        \A t \in DOMAIN stats : stats[t].found = Done(stats[t]) + DroppedBy(t)

\* C2: in every state, for every tier, converted + failed + skipped <= found,
\* and every work item held in a work list, in the pending list, in the
\* restored list or in the converter's list stems from exactly one found
\* increment of its tier.
C2_CountersWithinFound ==
    /\ \A t \in DOMAIN stats : Done(stats[t]) <= stats[t].found
    /\ \A t \in DOMAIN objects_to_process :
          /\ OneFoundEach(objects_to_process[t], t)
          /\ Len(objects_to_process[t]) = stats[t].found
    /\ \A t \in DOMAIN objects_by_storage_class :
          /\ OneFoundEach(objects_by_storage_class[t], t)
          /\ Len(objects_by_storage_class[t]) = stats[t].found
    /\ objects_to_restore # << >> =>
          /\ OneFoundEach(objects_to_restore, GLACIER)
          /\ Ids(objects_to_restore) \subseteq Ids(GlacierObjects)
    /\ restored_objects # << >> =>
          /\ OneFoundEach(restored_objects, GLACIER)
          /\ Ids(restored_objects) \subseteq Ids(GlacierObjects)
    /\ conv_objects # << >> =>
          /\ OneFoundEach(conv_objects, conv_tier)
          /\ Ids(conv_objects) \subseteq Ids(Get(objects_by_storage_class, conv_tier))

\* C2 witness: a wait of a later round, one item converted and one still pending
C2_Witness ==
    /\ pc = "sleep"
    /\ rounds = 2
    /\ GLACIER \in DOMAIN stats
    /\ stats[GLACIER].converted >= 1
    /\ objects_to_restore # << >>

\* C3: when a round's wait begins, the items found restored in that round
\* have already been handed to the converter (and so copied).
C3_ConvertBeforeWait ==
    pc = "sleep" => Ids(restored_objects) \subseteq Range(copied)

\* C4: a restore request that fails with any error other than "already in
\* progress" drops only that item: the error stays inside the batch loop, the
\* pending list and the counters are unchanged, and the loop goes on to the
\* next item of the batch.
C4_RestoreErrorDropsOnlyItem ==
    [][(pc = "restore" /\ lastCall'.op = "restore"
            /\ lastCall'.resp \notin {"ok", "RestoreAlreadyInProgress"})
        => /\ pc' # "aborted"
           /\ objects_to_restore' = objects_to_restore
           /\ stats' = stats
           /\ IF i < Len(GlacierObjects)
              THEN pc' = "restore" /\ i' = i + 1
              ELSE pc' = "while"]_vars

\* the behaviour of C4 on the errors the loop catches (a ClientError whose
\* code is not RestoreAlreadyInProgress)
RestoreClientErrorDropsOnlyItem ==
    [][(pc = "restore" /\ lastCall'.op = "restore"
            /\ lastCall'.resp = "OtherClientError")
        => /\ pc' # "aborted"
           /\ objects_to_restore' = objects_to_restore
           /\ stats' = stats
           /\ IF i < Len(GlacierObjects)
              THEN pc' = "restore" /\ i' = i + 1
              ELSE pc' = "while"]_vars

\* C5: the poll loop is left only with an empty pending list and a round is
\* only begun with a non-empty one; with a single pending item that is
\* reported restored on check N, the run makes N rounds, N status checks and
\* N - 1 waits, and copies the item once.
C5_PollRounds ==
    /\ pc \in {"report", "done"} => objects_to_restore = << >>
    /\ pc \in {"check", "partition", "sleep"} => objects_to_restore # << >>
    /\ (SinglePending /\ rounds \in 1..MaxRounds
            /\ (pc \in {"report", "done"} \/ (pc = "convert" /\ conv_tier = GLACIER)))
        => /\ heads = rounds
           /\ waits = rounds - 1
           /\ objects_to_restore = << >>
    /\ (SinglePending /\ rounds \in 1..MaxRounds /\ pc \in {"report", "done"})
        => RestoredCopies = 1

\* C5 witness: a single pending item, restored on the second check
C5_Witness ==
    /\ pc = "done"
    /\ SinglePending
    /\ rounds = 2
    /\ heads = 2
    /\ waits = 1

\* C6: convert_to_intelligent_tiering never raises, and after k items
\* converted + failed + skipped has grown by k (by the length of the list at
\* its return); a copy error increments failed and the loop goes on.
C6_ConvertCountsEveryItem ==
    /\ [](pc \in {"convert", "returned"})
    /\ [](pc = "convert" => Done(stats[conv_tier]) = Done(conv_entry) + (i - 1))
    /\ [](pc = "returned" => Done(stats[conv_tier]) = Done(conv_entry) + Len(conv_objects))
    /\ [](stats[conv_tier].found = conv_entry.found)
    /\ [][(pc = "convert" /\ (i' # i \/ pc' # pc)
              /\ lastCall'.op = "copy" /\ lastCall'.resp = "error")
          => /\ stats'[conv_tier].failed = stats[conv_tier].failed + 1
             /\ stats'[conv_tier].converted = stats[conv_tier].converted
             /\ IF i < Len(conv_objects)
                THEN pc' = "convert" /\ i' = i + 1
                ELSE pc' = "returned"]_vars

\* C6 witness: a list of three, a copy error followed by a successful copy
C6_Witness ==
    /\ pc = "returned"
    /\ Len(conv_objects) >= 2
    /\ stats[conv_tier].failed > conv_entry.failed
    /\ lastCall.op = "copy"
    /\ lastCall.resp = "ok"

\* C7: an item enters the restored list only by a status check answering
\* "restore no longer ongoing"; a check that raises, shows no restore metadata
\* or shows an ongoing restore changes neither list; an item leaves the
\* pending list only in the partition step and only if it is in the restored
\* list; and every round checks every pending item.
C7_PendingUntilRestored ==
    /\ [][Ids(restored_objects') \ Ids(restored_objects) # {}
          => /\ lastCall'.op = "head"
             /\ lastCall'.resp = "restored"
             /\ Ids(restored_objects') = Ids(restored_objects) \cup {lastCall'.id}]_vars
    /\ [][(pc = "check" /\ lastCall'.resp \in {"ongoing", "norestore", "error"})
          => /\ restored_objects' = restored_objects
             /\ objects_to_restore' = objects_to_restore]_vars
    /\ [][\A id \in Ids(objects_to_restore) \ Ids(objects_to_restore') :
            pc = "partition" /\ id \in Ids(restored_objects)]_vars
    /\ [](pc = "partition" => Ids(objects_to_restore) \subseteq checkedRound)
    /\ [](pc = "sleep" => Ids(objects_to_restore) \subseteq checkedRound)

\* C7 witness: in the second round an item that stayed pending is checked
\* again and its check raises
C7_Witness ==
    /\ pc \in {"check", "partition"}
    /\ rounds = 2
    /\ lastCall.op = "head"
    /\ lastCall.resp = "error"
    /\ lastCall.id \in Ids(objects_to_restore)

\* C8: a restore request answered "already in progress" does what a
\* successful one does: the item is appended to the pending list, no counter
\* moves, and the item is status-checked in the first poll round.
C8_AlreadyInProgressIsPending ==
    /\ [][(pc = "restore" /\ lastCall'.op = "restore"
              /\ lastCall'.resp \in {"ok", "RestoreAlreadyInProgress"})
          => /\ objects_to_restore' = Append(objects_to_restore, GlacierObjects[i])
             /\ lastCall'.id = GlacierObjects[i].id
             /\ stats' = stats
             /\ dropped' = dropped]_vars
    /\ []((pc = "while" /\ rounds = 0) => inProgress \subseteq Ids(objects_to_restore))
    /\ []((pc = "partition" /\ rounds = 1) => inProgress \subseteq checkedRound)

\* C8 witness: the first round has checked an item whose restore request was
\* answered "already in progress"
C8_Witness ==
    /\ pc = "partition"
    /\ rounds = 1
    /\ inProgress # {}
    /\ inProgress \subseteq checkedRound

\* C9: a listing failure returns the empty mapping and leaves the stats as
\* they were; after it no restore request, status check or copy is made, the
\* stats do not change, and the run goes straight on to the final report.
C9_ListFailureEndsWork ==
    /\ [][(pc = "list" /\ listFailed')
          => /\ objects_by_storage_class' = EmptyMap
             /\ stats' = stats
             /\ pc' = "main_ir"]_vars
    /\ [](listFailed
          => /\ objects_by_storage_class = EmptyMap
             /\ requested = {}
             /\ heads = 0
             /\ copied = << >>
             /\ pc \in {"main_ir", "main_glacier", "report", "done"})
    /\ [][listFailed
          => /\ stats' = stats
             /\ pc = "main_ir" => pc' = "main_glacier"
             /\ pc = "main_glacier" => pc' = "report"
             /\ pc = "report" => pc' = "done"]_vars

\* C9 witness: the listing failed after a page that held a matching object,
\* and the run reached the end
C9_Witness ==
    /\ listFailed
    /\ pc = "done"
    /\ \E t \in DOMAIN stats : stats[t].found >= 1

\* number of items of a list whose flag is false
Unflagged(list) == Cardinality({j \in 1..Len(list) : ~list[j].convert_to_intelligent})

\* C10: an item whose flag is false is never passed to copy_object; its turn
\* increments skipped by one and leaves converted and failed alone.
C10_FlagFalseIsSkipped ==
    /\ [][(pc = "convert" /\ ~conv_objects[i].convert_to_intelligent
              /\ (i' # i \/ pc' # pc))
          => /\ copied' = copied
             /\ lastCall'.op = "skip"
             /\ stats'[conv_tier].skipped = stats[conv_tier].skipped + 1
             /\ stats'[conv_tier].converted = stats[conv_tier].converted
             /\ stats'[conv_tier].failed = stats[conv_tier].failed]_vars
    /\ [](\A j \in 1..Len(conv_objects) :
            ~conv_objects[j].convert_to_intelligent
                => conv_objects[j].id \notin Range(copied))
    /\ [](pc = "returned"
          => stats[conv_tier].skipped = conv_entry.skipped + Unflagged(conv_objects))

\* C10 witness: a list with a flagged and an unflagged item has been processed
C10_Witness ==
    /\ pc = "returned"
    /\ Unflagged(conv_objects) >= 1
    /\ Unflagged(conv_objects) < Len(conv_objects)
    /\ stats[conv_tier].skipped = conv_entry.skipped + Unflagged(conv_objects)
    /\ copied # << >>

(* ------- process_glacier_objects called with an arbitrary policy list -- *)
\* policy lists with any tiers and flags, a tier possibly configured twice
ConfigLists ==
    UNION {[1..n -> [storage_class : StorageClass, convert_to_intelligent : BOOLEAN]] :
              n \in 1..2}

InitClassify ==
    /\ pc = "process"
    /\ storage_configs \in ConfigLists
    /\ storageclass = << >>
    /\ stats = EmptyMap
    /\ objects_to_process = EmptyMap
    /\ objects_by_storage_class = EmptyMap
    /\ pages = 0
    /\ lastKey = 0
    /\ nlisted = 0
    /\ listing = << >>
    /\ i = 1
    /\ objects_to_restore = << >>
    /\ restored_objects = << >>
    /\ conv_objects = << >>
    /\ conv_tier = GLACIER
    /\ conv_ret = "none"
    /\ conv_entry = ConversionStats
    /\ nextId = 1
    /\ lastCall = NoCall
    /\ copied = << >>
    /\ requested = {}
    /\ inProgress = {}
    /\ checkedRound = {}
    /\ heads = 0
    /\ dropped = 0
    /\ rounds = 0
    /\ waits = 0
    /\ listFailed = FALSE

NextClassify ==
    \/ ProcessBegin
    \/ ListPage(FALSE)

SpecClassify == InitClassify /\ [][NextClassify]_vars

\* the listed object at position k has a storage class some policy names
Matched(k) ==
    /\ "StorageClass" \in DOMAIN listing[k]
    /\ \E j \in 1..Len(storage_configs) :
          storage_configs[j].storage_class = listing[k].StorageClass

\* the positions of the listing that hold an object of tier t
PositionsOf(t) ==
    {k \in 1..Len(listing) :
        "StorageClass" \in DOMAIN listing[k] /\ listing[k].StorageClass = t}

\* the flag of the first policy for tier t
FirstPolicyFlag(t) ==
    LET j == CHOOSE j \in 1..Len(storage_configs) :
                 /\ storage_configs[j].storage_class = t
                 /\ \A h \in 1..(j - 1) : storage_configs[h].storage_class # t
    IN  storage_configs[j].convert_to_intelligent

\* C11: while listing, the work list of every configured tier holds exactly
\* one item per listed object of that tier, in listing order, with the key of
\* the object, the flag of the first policy of that tier, and the ordinal of
\* the object among the matched ones; found is the length of that list; no
\* other counter moves; objects without a storage class or of a tier no
\* policy names add nothing.
C11_FirstMatchClassification ==
    pc = "list" =>
        /\ DOMAIN stats = {storage_configs[j].storage_class : j \in 1..Len(storage_configs)}
        /\ DOMAIN objects_to_process = DOMAIN stats
        /\ nextId - 1 = Cardinality({k \in 1..Len(listing) : Matched(k)})
        /\ \A t \in DOMAIN stats :
              /\ stats[t].found = Cardinality(PositionsOf(t))
              /\ Len(objects_to_process[t]) = Cardinality(PositionsOf(t))
              /\ Done(stats[t]) = 0
              /\ \A k \in PositionsOf(t) :
                    LET n == Cardinality({m \in PositionsOf(t) : m <= k})
                    IN  objects_to_process[t][n] =
                            WorkItem(listing[k].Key, FirstPolicyFlag(t),
                                     Cardinality({m \in 1..k : Matched(m)}))

\* C11 witness: a tier configured twice with different flags, and a listing
\* that holds an object of that tier, one of no configured tier or without a
\* storage class, classified
C11_Witness ==
    /\ pc = "list"
    /\ Len(storage_configs) = 2
    /\ storage_configs[1].storage_class = storage_configs[2].storage_class
    /\ storage_configs[1].convert_to_intelligent # storage_configs[2].convert_to_intelligent
    /\ \E k \in 1..Len(listing) : Matched(k)
    /\ \E k \in 1..Len(listing) : "StorageClass" \notin DOMAIN listing[k]
    /\ \E k \in 1..Len(listing) :
          "StorageClass" \in DOMAIN listing[k] /\ ~Matched(k)

\* a list of ids in the order the listing discovered them
InDiscoveryOrder(ids) == \A a, b \in 1..Len(ids) : a < b => ids[a] < ids[b]

\* the ids of a list of items, in list order
IdSeq(list) == [n \in 1..Len(list) |-> list[n].id]

\* the copy_object calls made so far for items of the ids S, in call order
CopiesOf(S) == SelectSeq(copied, LAMBDA x : x \in S)

\* C12: the instant-retrieval copies follow the listing order; the items
\* observed restored in one round are kept in discovery order, none of them is
\* copied before the round's checks are over, they are copied in that order,
\* all of them are copied before the next round starts, and no item still
\* pending (to be observed restored in a later round) has been copied.
C12_ConversionOrder ==
    /\ LET ir == IdSeq(Get(objects_by_storage_class, GLACIER_IR))
           done == CopiesOf(Range(ir))
       IN  /\ Len(done) <= Len(ir)
           /\ done = SubSeq(ir, 1, Len(done))
           /\ InDiscoveryOrder(done)
    /\ InDiscoveryOrder(IdSeq(restored_objects))
    /\ pc \in {"check", "partition", "sleep"} =>
          Ids(restored_objects) \cap Range(copied) = {}
    /\ (pc = "convert" /\ conv_tier = GLACIER) =>
          /\ conv_objects = restored_objects
          /\ Len(copied) >= i - 1
          /\ SubSeq(copied, Len(copied) - (i - 2), Len(copied)) =
                 SubSeq(IdSeq(conv_objects), 1, i - 1)
          /\ \A n \in i..Len(conv_objects) : conv_objects[n].id \notin Range(copied)
    /\ pc \in {"while", "report", "done"} => Ids(restored_objects) \subseteq Range(copied)
    /\ pc \in {"while", "check", "partition", "sleep", "convert", "report", "done"} =>
          Ids(objects_to_restore) \cap Range(copied) \subseteq Ids(restored_objects)

\* C12 witness: three cold-archive items; the second one discovered was
\* restored in an earlier round than the other two, which were restored
\* together: the copies went 2, 1, 3
C12_Witness ==
    /\ pc = "done"
    /\ Len(copied) = 3
    /\ Range(copied) \subseteq requested
    /\ copied[1] > copied[2]
    /\ copied[2] < copied[3]
    /\ rounds = 2

(* ---- main on a run where every store call succeeds and every restore -- *)
(* ---- is complete at its first status check                           -- *)
InitHappy ==
    /\ Init
    /\ {GLACIER, GLACIER_IR} \subseteq
          {c.storage_class : c \in Range(create_storage_configs(storageclass))}

NextHappy ==
    \/ Configure
    \/ ProcessBegin
    \/ ListPage(FALSE)
    \/ ListReturn(TRUE)
    \/ MainGlacierIR
    \/ ConvertStep /\ lastCall'.resp = "ok"
    \/ MainGlacier
    \/ RestoreStep /\ lastCall'.resp = "ok"
    \/ While
    \/ HeadStep /\ lastCall'.resp = "restored"
    \/ Partition
    \/ Report

SpecHappy == InitHappy /\ [][NextHappy]_vars

\* C13: on such a run nothing fails, nothing is skipped, the run never waits
\* and is never cut short; at the end both tiers have statistics, found is
\* the number of listed objects of the tier, converted = found, one copy was
\* made per found object, and there was exactly one poll round if a
\* cold-archive object was found (none otherwise); objects of other tiers or
\* without a storage class are in no counter.
C13_HappyPath ==
    /\ pc \notin {"sleep", "aborted", "noconfig"}
    /\ waits = 0
    /\ ~listFailed
    /\ \A t \in DOMAIN stats : stats[t].failed = 0 /\ stats[t].skipped = 0
    /\ pc = "done" =>
          /\ DOMAIN stats = {GLACIER, GLACIER_IR}
          /\ \A t \in DOMAIN stats :
                /\ stats[t].found = Cardinality(PositionsOf(t))
                /\ stats[t].converted = stats[t].found
          /\ Len(copied) = stats[GLACIER].found + stats[GLACIER_IR].found
          /\ rounds = IF stats[GLACIER].found > 0 THEN 1 ELSE 0
          /\ objects_to_restore = << >>

\* C13 witness: the bucket held an instant-retrieval object, a cold-archive
\* object and an object of another tier, and the run has ended
C13_Witness ==
    /\ pc = "done"
    /\ PositionsOf(GLACIER) # {}
    /\ PositionsOf(GLACIER_IR) # {}
    /\ PositionsOf(STANDARD) # {}
    /\ rounds = 1
    /\ stats[GLACIER].converted = 1
    /\ stats[GLACIER_IR].converted = 1

(* ------------- create_storage_configs called on many strings ----------- *)
\* a token: a word with whitespace before and after it
Token(lead, word, trail) == [lead |-> lead, word |-> word, trail |-> trail]

Tokens ==
    { Token(<< >>, GlacierChars, << >>),
      Token(<< >>, GlacierIRChars, << >>),
      Token(<< >>, BogusChars, << >>),
      Token(Space, GlacierIRChars, Tab),
      Token(<< >>, LowerGlacierChars, << >>),
      Token(<< >>, << >>, << >>) }

TokenLists == UNION {[1..n -> Tokens] : n \in 1..MaxTokens}

Text(tok) == tok.lead \o tok.word \o tok.trail

\* the tokens written one after the other with "#" between them
RECURSIVE Join(_)
Join(toks) ==
    IF Len(toks) = 1 THEN Text(toks[1])
    ELSE Text(toks[1]) \o Hash \o Join(Tail(toks))

InitConfig ==
    /\ pc = "start"
    /\ storageclass \in {Join(toks) : toks \in TokenLists}
    /\ storage_configs = << >>
    /\ stats = EmptyMap
    /\ objects_to_process = EmptyMap
    /\ objects_by_storage_class = EmptyMap
    /\ pages = 0
    /\ lastKey = 0
    /\ nlisted = 0
    /\ listing = << >>
    /\ i = 1
    /\ objects_to_restore = << >>
    /\ restored_objects = << >>
    /\ conv_objects = << >>
    /\ conv_tier = GLACIER
    /\ conv_ret = "none"
    /\ conv_entry = ConversionStats
    /\ nextId = 1
    /\ lastCall = NoCall
    /\ copied = << >>
    /\ requested = {}
    /\ inProgress = {}
    /\ checkedRound = {}
    /\ heads = 0
    /\ dropped = 0
    /\ rounds = 0
    /\ waits = 0
    /\ listFailed = FALSE

NextConfig == Configure

SpecConfig == InitConfig /\ [][NextConfig]_vars

\* the tier a token names, "none" when its word is no member name
TokenTier(tok) ==
    IF tok.word = GlacierChars THEN GLACIER
    ELSE IF tok.word = GlacierIRChars THEN GLACIER_IR
    ELSE "none"

\* one policy, flag set, per token that names a tier, in token order
PoliciesOf(toks) ==
    LET valid == SelectSeq(toks, LAMBDA tok : TokenTier(tok) # "none")
    IN  [n \in 1..Len(valid) |->
            [storage_class |-> TokenTier(valid[n]), convert_to_intelligent |-> TRUE]]

\* the number of "#" in a string
Hashes(s) == Cardinality({k \in 1..Len(s) : s[k] = "#"})

\* C14: once create_storage_configs has returned, for every way of reading
\* the configuration string as tokens joined by "#", the policies are one per
\* token that names a tier after trimming, in token order, every other token
\* being dropped; the call always returns; "GLACIER#BOGUS#GLACIER_IR" gives
\* GLACIER then GLACIER_IR.
C14_CreateStorageConfigs ==
    /\ pc \in {"start", "process", "noconfig"}
    /\ pc # "start" =>
          /\ \A toks \in [1..(Hashes(storageclass) + 1) -> Tokens] :
                Join(toks) = storageclass => storage_configs = PoliciesOf(toks)
          /\ storageclass = GlacierChars \o Hash \o BogusChars \o Hash \o GlacierIRChars =>
                storage_configs = <<StorageConfig(GLACIER), StorageConfig(GLACIER_IR)>>
          /\ pc = "noconfig" <=> storage_configs = << >>

\* C14 witness: the string " GLACIER_IR\t#glacier#GLACIER" was parsed into
\* GLACIER_IR then GLACIER
C14_Witness ==
    /\ pc = "process"
    /\ storageclass = Space \o GlacierIRChars \o Tab \o Hash \o LowerGlacierChars
                          \o Hash \o GlacierChars
    /\ storage_configs = <<StorageConfig(GLACIER_IR), StorageConfig(GLACIER)>>

\* nothing was asked of the store and nothing was counted
NoWork ==
    /\ lastCall = NoCall
    /\ listing = << >> /\ pages = 0
    /\ copied = << >>
    /\ requested = {}
    /\ heads = 0
    /\ waits = 0
    /\ stats = EmptyMap
    /\ objects_by_storage_class = EmptyMap

\* C15: a configuration string without a valid tier ends the run right after
\* it was parsed: the run is in its end state "noconfig" exactly when the
\* policy list is empty, no store operation has been issued and no statistics
\* exist there, and no step is taken from there.
C15_NoPoliciesNoWork ==
    /\ [](pc # "start" => (pc = "noconfig" <=> storage_configs = << >>))
    /\ [](pc = "noconfig" => NoWork)
    /\ [][pc # "noconfig"]_vars

\* C15 witness: the run ended on the string "BOGUS"
C15_Witness ==
    /\ pc = "noconfig"
    /\ storageclass = BogusChars
    /\ storage_configs = << >>

(* ------- the poll loop of main entered with an arbitrary pending list -- *)
\* the items the classifier makes of objects with the keys S, all flagged
ItemsOf(S) ==
    [n \in 1..Cardinality(S) |->
        WorkItem(CHOOSE k \in S : Cardinality({x \in S : x <= k}) = n, TRUE, n)]

InitPoll ==
    /\ pc = "while"
    /\ objects_to_restore \in {ItemsOf(S) : S \in SUBSET Keys}
    /\ storageclass = GlacierChars
    /\ storage_configs = <<StorageConfig(GLACIER)>>
    /\ stats = [t \in {GLACIER} |->
                   [ConversionStats EXCEPT !.found = Len(objects_to_restore)]]
    /\ objects_to_process = EmptyMap
    /\ objects_by_storage_class = [t \in {GLACIER} |-> objects_to_restore]
    /\ pages = 0
    /\ lastKey = 0
    /\ nlisted = 0
    /\ listing = << >>
    /\ i = 1
    /\ restored_objects = << >>
    /\ conv_objects = << >>
    /\ conv_tier = GLACIER
    /\ conv_ret = "none"
    /\ conv_entry = ConversionStats
    /\ nextId = Len(objects_to_restore) + 1
    /\ lastCall = NoCall
    /\ copied = << >>
    /\ requested = Ids(objects_to_restore)
    /\ inProgress = {}
    /\ checkedRound = {}
    /\ heads = 0
    /\ dropped = 0
    /\ rounds = 0
    /\ waits = 0
    /\ listFailed = FALSE

NextPoll ==
    \/ While
    \/ HeadStep
    \/ Partition
    \/ Sleep
    \/ ConvertStep
    \/ Report

\* the program keeps running: a step that can be taken is taken
SpecPoll == InitPoll /\ [][NextPoll]_vars /\ WF_vars(NextPoll)

\* the item is pending and not yet observed restored in this round
AwaitsRestore(id) == id \in Ids(objects_to_restore) \ Ids(restored_objects)

\* the status check of the item has just reported it restored
ReportedRestored(id) == lastCall = [op |-> "head", id |-> id, resp |-> "restored"]

\* C16: if every item that awaits its restore is eventually reported
\* restored, the run eventually reaches the final report with nothing
\* pending; if the status check of an item pending at the start of the loop
\* never reports it restored, the run never reaches the report, and starts
\* poll rounds and waits again and again forever.
C16_PollTermination ==
    /\ (\A id \in Keys : AwaitsRestore(id) ~> ReportedRestored(id))
          => <>(pc = "done" /\ objects_to_restore = << >>)
    /\ \A id \in Keys :
          (id \in Ids(objects_to_restore) /\ [] ~ReportedRestored(id))
             => /\ [](pc \notin {"report", "done"})
                /\ []<>(pc = "check")
                /\ []<>(pc = "sleep")

\* C16 witness: the loop went through at least two rounds and a wait before
\* the last pending item was restored and the report was reached
C16_Witness ==
    /\ pc = "done"
    /\ rounds >= 2
    /\ waits >= 1
    /\ Len(copied) >= 2

\* the poll loop of lines 242-254 is running
InPollLoop == pc \in {"while", "check", "partition", "sleep"} \/
              (pc = "convert" /\ conv_ret = "while")

\* C17: no item is copied twice, whatever the outcome of its copy: the copy
\* calls are one per converted or failed item; an item copied is no longer
\* pending, is not status-checked in a later round and is not handed to the
\* converter again; while the loop runs the pending list only loses items.
C17_CopyAtMostOnce ==
    /\ [] /\ Cardinality(Range(copied)) = Len(copied)
          /\ \A t \in DOMAIN stats :
                stats[t].converted + stats[t].failed =
                    Cardinality({n \in 1..Len(copied) :
                        copied[n] \in Ids(Get(objects_by_storage_class, t))})
          /\ pc \in {"while", "check", "partition", "sleep"} =>
                Ids(objects_to_restore) \cap Range(copied) = {}
          /\ pc \in {"check", "partition", "sleep"} =>
                checkedRound \cap Range(copied) = {}
          /\ pc \in {"check", "partition"} =>
                checkedRound \subseteq Ids(objects_to_restore)
          /\ (pc = "convert" /\ conv_ret = "while") =>
                /\ Ids(objects_to_restore) \cap Ids(conv_objects) = {}
                /\ \A n \in i..Len(conv_objects) : conv_objects[n].id \notin Range(copied)
    /\ [][InPollLoop =>
             /\ Ids(objects_to_restore') \subseteq Ids(objects_to_restore)
             /\ Len(objects_to_restore') <= Len(objects_to_restore)]_vars

\* C17 witness: a cold-archive item restored in the first round whose copy
\* failed, and a second round run for another item, which was copied too
C17_Witness ==
    /\ pc = "done"
    /\ rounds = 2
    /\ Len(copied) = 2
    /\ stats[GLACIER].failed = 1
    /\ stats[GLACIER].converted = 1
    /\ lastCall = [op |-> "copy", id |-> copied[2], resp |-> "ok"]

(* ---- main on listings in which a key may repeat, GLACIER configured --- *)
InitDup ==
    /\ Init
    /\ storageclass = GlacierChars

NextDup ==
    \/ Configure
    \/ ProcessBegin
    \/ ListPage(TRUE)
    \/ ListEnd
    \/ ListFail
    \/ MainGlacierIR
    \/ ConvertStep
    \/ MainGlacier
    \/ RestoreStep
    \/ While
    \/ HeadStep
    \/ Partition
    \/ Sleep
    \/ Report

SpecDup == InitDup /\ [][NextDup]_vars

\* C18: the step that cuts the pending list down removes exactly as many
\* items as were observed restored in the round (the ones handed to the
\* converter), and at the end of a run whose listing and restore requests
\* went through, the items that left the pending list are as many as the
\* cold-archive items converted, failed or skipped.
C18_RemovedIsConverted ==
    /\ [][pc = "partition" =>
             Len(objects_to_restore) - Len(objects_to_restore') = Len(restored_objects)]_vars
    /\ []((pc = "done" /\ ~listFailed /\ GLACIER \in DOMAIN stats) =>
             Cardinality(requested) - dropped = Done(stats[GLACIER]))

\* every item of the list has its flag set
AllFlagged(list) == \A n \in 1..Len(list) : list[n].convert_to_intelligent

\* C19: in a run of main every policy has its flag set, every work item in
\* every list has it set, the skipped counter of every tier is 0, no item was
\* passed over by the converter, and the copy calls made are as many as the
\* items the converter has dealt with.
C19_SkippedAlwaysZero ==
    /\ \A j \in 1..Len(storage_configs) : storage_configs[j].convert_to_intelligent
    /\ \A t \in DOMAIN stats : stats[t].skipped = 0
    /\ \A t \in DOMAIN objects_to_process : AllFlagged(objects_to_process[t])
    /\ \A t \in DOMAIN objects_by_storage_class : AllFlagged(objects_by_storage_class[t])
    /\ AllFlagged(objects_to_restore)
    /\ AllFlagged(restored_objects)
    /\ AllFlagged(conv_objects)
    /\ lastCall.op # "skip"
    /\ \A t \in DOMAIN stats :
          Done(stats[t]) =
              Cardinality({n \in 1..Len(copied) :
                  copied[n] \in Ids(Get(objects_by_storage_class, t))})

\* C19 witness: a run over both tiers has ended, three items went through
\* the converter and three copy calls were made
C19_Witness ==
    /\ pc = "done"
    /\ DOMAIN stats = {GLACIER, GLACIER_IR}
    /\ Done(stats[GLACIER]) + Done(stats[GLACIER_IR]) = 3
    /\ stats[GLACIER_IR].converted >= 1
    /\ stats[GLACIER].converted >= 1
    /\ Len(copied) = 3

\* the found counter of every tier
Found == [t \in DOMAIN stats |-> stats[t].found]

\* C20: until the listing has returned no copy, restore request or status
\* check has been issued; instant-retrieval items are copied only while no
\* restore request has been made; restore requests are made only while no
\* status check has been made; and once the listing has returned the found
\* counters never change.
C20_PhaseOrder ==
    /\ [](pc \in {"start", "noconfig", "process", "list"} =>
             copied = << >> /\ requested = {} /\ heads = 0)
    /\ []((pc = "convert" /\ conv_tier = GLACIER_IR) => requested = {} /\ heads = 0)
    /\ [](pc \in {"main_ir", "main_glacier", "restore"} => heads = 0)
    /\ [][(copied' # copied /\ conv_tier = GLACIER_IR) => requested' = {}]_vars
    /\ [][requested' # requested => heads' = 0]_vars
    /\ [][heads' # heads => pc = "check"]_vars
    /\ [][pc \notin {"process", "list"} => Found' = Found]_vars

\* C20 witness: a run that copied an instant-retrieval item, then requested
\* a restore, then checked its status twice with a wait between, then
\* copied the restored item
C20_Witness ==
    /\ pc = "done"
    /\ Len(copied) = 2
    /\ copied[1] \notin requested
    /\ copied[2] \in requested
    /\ heads = 2
    /\ waits = 1
    /\ lastCall.op = "copy"

====
